---- MODULE Spec2Model ----
(***************************************************************************)
(* A model of sim_taichi.py, the CRT image simulator: the colour encode    *)
(* (linear_to_srgb), the zero-bordered texture fetch (texelFetch), the     *)
(* band-limit filter (taichi_filter_fragment / filter_sim), the two blur   *)
(* kernels (taichi_box_blur, gaussian_fragment / gaussian_taichi) with     *)
(* their drivers (box_blur, gaussian_blur), and the pipeline (main).       *)
(*                                                                         *)
(* Arithmetic is exact.  A float is a quotient of two polynomials in the   *)
(* symbol q = exp(-1/(2*sigma^2)), so that the Gaussian weight             *)
(* exp(-d^2/(2*sigma^2)) of an integer distance d is the monomial q^(d*d). *)
(* q is transcendental for every rational sigma > 0, hence a polynomial in *)
(* q with integer coefficients is zero only if every coefficient is, and   *)
(* two quotients are equal exactly when they are equal after cross         *)
(* multiplication.  Rounding error of the 32-bit floats is not modelled.   *)
(*                                                                         *)
(* Each kernel's outermost loop is a Taichi parallel loop: one worker per  *)
(* iteration of that loop, the workers' steps interleaved in any order.    *)
(***************************************************************************)
EXTENDS Integers, Sequences, FiniteSets, TLC

VARIABLES
    field_in,      \* the kernel's source field: [shape |-> <<h, w>>, data |-> pixels]
    field_out,     \* the kernel's destination field
    vTexCoords,    \* texelFetch: the coordinate of the last fetch
    val,           \* texelFetch: the value the last fetch returned
    reads,         \* texelFetch: the indices of Source the last fetch read
    called,        \* texelFetch: whether a fetch has been made
    image_in,      \* the image a blur was called on
    sigma,         \* gaussian_blur's sigma, a fraction [num, den]
    call,          \* the number of the kernel invocation under way (0: none)
    done,          \* the iterations of the kernel's parallel loop that are finished
    result,        \* the image the blur returned
    radius,        \* box_blur's radius
    workers,       \* taichi_box_blur: per row, the worker's step and running_sum
    log,           \* taichi_box_blur: the memory accesses of the invocation
    ub,            \* an out-of-range access to a field has been made
    L,             \* the module constant L, one filter half-width per channel
    BLUR_SIGMA,    \* the module constant BLUR_SIGMA
    SAMPLES,       \* the module constant SAMPLES
    pc,            \* main: the number of statements executed
    env,           \* main: the values of its local variables
    trace,         \* main: the calls made so far, in order
    img,           \* linear_to_srgb: its argument
    out            \* linear_to_srgb: the bytes it returned

fetchVars == <<vTexCoords, val, reads, called>>
blurVars == <<image_in, call, done, result>>
boxVars == <<radius, workers, log, ub>>
restVars == <<L, BLUR_SIGMA, SAMPLES, pc, env, trace, img, out>>
vars == <<field_in, field_out, vTexCoords, val, reads, called,
          image_in, sigma, call, done, result, radius, workers, log, ub,
          L, BLUR_SIGMA, SAMPLES, pc, env, trace, img, out>>

(***************************************************************************)
(* Bounds of the model.                                                    *)
(***************************************************************************)
MaxHeight == 2
MaxWidth == 4
\* A blurred image holds at most MaxCells pixels.
MaxCells == 6
\* gaussian_blur is called with sigma = 0, 1/8, ..., MaxSigmaEighths/8.
MaxSigmaEighths == 3
\* box_blur is called with radius 0..MaxRadius.
MaxRadius == 1
\* texelFetch is called with coordinates from -Margin to size - 1 + Margin.
Margin == 2

(***************************************************************************)
(* Polynomials in q with integer coefficients: a function from the         *)
(* exponents with a nonzero coefficient to that coefficient.               *)
(***************************************************************************)
ZeroPoly == [e \in {} |-> 0]

Mono(e, c) == IF c = 0 THEN ZeroPoly ELSE [x \in {e} |-> c]

PCoef(p, e) == IF e \in DOMAIN p THEN p[e] ELSE 0

PAdd(p, r) ==
    LET nz == {e \in DOMAIN p \cup DOMAIN r : PCoef(p, e) + PCoef(r, e) # 0}
    IN  [e \in nz |-> PCoef(p, e) + PCoef(r, e)]

PScale(p, k) == IF k = 0 THEN ZeroPoly ELSE [e \in DOMAIN p |-> k * p[e]]

RECURSIVE SetSum(_, _)
SetSum(f, S) ==
    IF S = {} THEN 0
    ELSE LET e == CHOOSE e \in S : TRUE IN f[e] + SetSum(f, S \ {e})

PMul(p, r) ==
    LET exps == {a + b : a \in DOMAIN p, b \in DOMAIN r}
        with(e) == {a \in DOMAIN p : e - a \in DOMAIN r}
        coef(e) == SetSum([a \in with(e) |-> p[a] * r[e - a]], with(e))
        nz == {e \in exps : coef(e) # 0}
    IN  [e \in nz |-> coef(e)]

\* p is not zero and has no negative coefficient: then p > 0, since q > 0.
PPositive(p) == p # ZeroPoly /\ \A e \in DOMAIN p : p[e] > 0

(***************************************************************************)
(* Floats: cls is "fin" (the quotient num/den, den # 0), "nan" or "inf".   *)
(***************************************************************************)
OnePoly == Mono(0, 1)

Fin(n, d) == [cls |-> "fin", num |-> n, den |-> IF n = ZeroPoly THEN OnePoly ELSE d]

NaN == [cls |-> "nan", num |-> ZeroPoly, den |-> ZeroPoly]

Inf == [cls |-> "inf", num |-> ZeroPoly, den |-> ZeroPoly]

FInt(n) == Fin(Mono(0, n), OnePoly)

F0 == FInt(0)

FIsZero(a) == a.cls = "fin" /\ a.num = ZeroPoly

FAdd(a, b) ==
    IF a.cls = "nan" \/ b.cls = "nan" THEN NaN
    ELSE IF a.cls = "inf" \/ b.cls = "inf" THEN Inf
    ELSE IF a.den = b.den THEN Fin(PAdd(a.num, b.num), a.den)
    ELSE Fin(PAdd(PMul(a.num, b.den), PMul(b.num, a.den)), PMul(a.den, b.den))

FNeg(a) == IF a.cls = "fin" THEN Fin(PScale(a.num, -1), a.den) ELSE a

FSub(a, b) == FAdd(a, FNeg(b))

FMul(a, b) ==
    IF a.cls = "nan" \/ b.cls = "nan" THEN NaN
    ELSE IF a.cls = "inf" \/ b.cls = "inf"
         THEN (IF FIsZero(a) \/ FIsZero(b) THEN NaN ELSE Inf)
    ELSE Fin(PMul(a.num, b.num), PMul(a.den, b.den))

\* IEEE division: 0/0 is NaN, x/0 is an infinity, nothing is raised.
FDiv(a, b) ==
    IF a.cls = "nan" \/ b.cls = "nan" THEN NaN
    ELSE IF b.cls = "inf" THEN (IF a.cls = "inf" THEN NaN ELSE F0)
    ELSE IF a.cls = "inf" THEN Inf
    ELSE IF b.num = ZeroPoly THEN (IF a.num = ZeroPoly THEN NaN ELSE Inf)
    ELSE Fin(PMul(a.num, b.den), PMul(a.den, b.num))

\* Equality of the numbers two floats stand for (NaN equals nothing).
FEq(a, b) ==
    /\ a.cls = "fin"
    /\ b.cls = "fin"
    /\ PMul(a.num, b.den) = PMul(b.num, a.den)

(***************************************************************************)
(* tm.vec3: three floats.                                                  *)
(***************************************************************************)
vec3(s) == <<s, s, s>>

VAdd(a, b) == [c \in 1..3 |-> FAdd(a[c], b[c])]

VSub(a, b) == [c \in 1..3 |-> FSub(a[c], b[c])]

VScale(w, a) == [c \in 1..3 |-> FMul(w, a[c])]

VDiv(a, w) == [c \in 1..3 |-> FDiv(a[c], w)]

VEq(a, b) == \A c \in 1..3 : FEq(a[c], b[c])

VInt(r, g, b) == <<FInt(r), FInt(g), FInt(b)>>

(***************************************************************************)
(* ti.Vector.field(n=3, dtype=float, shape=(h, w)): indexed [row, column]. *)
(***************************************************************************)
Cells(h, w) == (0..(h - 1)) \X (0..(w - 1))

Field(h, w, px) == [shape |-> <<h, w>>, data |-> [i \in Cells(h, w) |-> px[i]]]

NoField == [shape |-> <<0, 0>>, data |-> <<>>]

\* The images the kernels are run on: constant images, a ramp whose pixels
\* are all different and nonzero, and a unit impulse in column 0 of every row.
Palette == {VInt(0, 0, 0), VInt(1, 1, 1), VInt(2, 0, 1)}

Images(h, w) ==
    {Field(h, w, [i \in Cells(h, w) |-> c]) : c \in Palette}
    \cup {Field(h, w, [i \in Cells(h, w) |->
                          VInt(1 + i[1] * w + i[2], 2, 1 + i[1])])}
    \cup {Field(h, w, [i \in Cells(h, w) |->
                          IF i[2] = 0 THEN VInt(1, 1, 1) ELSE VInt(0, 0, 0)])}

(***************************************************************************)
(* texelFetch (lines 62-69).  vTexCoords is an ivec2 [x, y].               *)
(***************************************************************************)
texelFetch_xLeZero(Source, coords) ==
    LET y_size == Source.shape[1]
        x_size == Source.shape[2]
    IN  IF ~(coords.x <= 0 \/ coords.x >= x_size \/ coords.y < 0 \/ coords.y >= y_size)
        THEN Source.data[<<coords.y, coords.x>>]
        ELSE vec3(F0)

texelFetch(Source, coords) ==
    LET y_size == Source.shape[1]
        x_size == Source.shape[2]
    IN  IF ~(coords.x < 0 \/ coords.x >= x_size \/ coords.y < 0 \/ coords.y >= y_size)
        THEN Source.data[<<coords.y, coords.x>>]
        ELSE vec3(F0)

\* The indices of Source that texelFetch reads: the one under the same guard.
texelFetchReads(Source, coords) ==
    LET y_size == Source.shape[1]
        x_size == Source.shape[2]
    IN  IF ~(coords.x < 0 \/ coords.x >= x_size \/ coords.y < 0 \/ coords.y >= y_size)
        THEN {<<coords.y, coords.x>>}
        ELSE {}

ivec2(x, y) == [x |-> x, y |-> y]

\* The state of the box blur while no box blur runs.
RestIdle ==
    /\ L = <<0, 0, 0>>
    /\ BLUR_SIGMA = 0
    /\ SAMPLES = 0
    /\ pc = 0
    /\ env = <<>>
    /\ trace = <<>>
    /\ img = <<>>
    /\ out = <<>>

BoxIdle ==
    /\ radius = 0
    /\ workers = <<>>
    /\ log = {}
    /\ ub = FALSE

(***************************************************************************)
(* Specification SpecTexelFetch: texelFetch called on any grid at any      *)
(* coordinate from Margin below the grid to Margin above it.               *)
(***************************************************************************)
InitTexelFetch ==
    /\ \E h \in 1..MaxHeight, w \in 1..MaxWidth : field_in \in Images(h, w)
    /\ field_out = NoField
    /\ vTexCoords = ivec2(0, 0)
    /\ val = vec3(F0)
    /\ reads = {}
    /\ called = FALSE
    /\ image_in = NoField
    /\ sigma = [num |-> 0, den |-> 1]
    /\ call = 0
    /\ done = {}
    /\ result = NoField
    /\ BoxIdle
    /\ RestIdle

TexelFetchCall ==
    \E x \in (-Margin)..(field_in.shape[2] - 1 + Margin),
       y \in (-Margin)..(field_in.shape[1] - 1 + Margin) :
        /\ vTexCoords' = ivec2(x, y)
        /\ val' = texelFetch(field_in, ivec2(x, y))
        /\ reads' = texelFetchReads(field_in, ivec2(x, y))
        /\ called' = TRUE
        /\ UNCHANGED <<field_in, field_out, sigma>>
        /\ UNCHANGED blurVars
        /\ UNCHANGED <<boxVars, restVars>>

NextTexelFetch == TexelFetchCall

SpecTexelFetch == InitTexelFetch /\ [][NextTexelFetch]_vars

\* C1: for any grid of height H >= 1 and width W >= 1 and any integer
\* coordinate (x, y), negative ones included, texelFetch returns the zero
\* vector when x < 0 or x >= W or y < 0 or y >= H and exactly the stored pixel
\* Source[y, x] otherwise, and it reads no index outside the grid.
C1_TexelFetchZeroBorder ==
    called =>
        LET H == field_in.shape[1]
            W == field_in.shape[2]
            x == vTexCoords.x
            y == vTexCoords.y
            outside == x < 0 \/ x >= W \/ y < 0 \/ y >= H
        IN  /\ outside => val = vec3(F0) /\ reads = {}
            /\ ~outside => val = field_in.data[<<y, x>>] /\ reads = {<<y, x>>}
            /\ reads \subseteq Cells(H, W)

\* A fetch left of and below the grid has returned the zero vector, on a grid
\* that holds no zero pixel.
C1_Witness ==
    /\ called
    /\ vTexCoords.x < 0
    /\ vTexCoords.y >= field_in.shape[1]
    /\ val = vec3(F0)
    /\ \A i \in DOMAIN field_in.data : field_in.data[i] # vec3(F0)

(***************************************************************************)
(* Fractions [num, den] with den > 0, for coordinates and for sigma.       *)
(***************************************************************************)
Frac(n, d) == [num |-> n, den |-> d]

Floor(f) == f.num \div f.den

Ceil(f) == -((-f.num) \div f.den)

\* tm.round: to the nearest integer, a half away from zero.
Round(f) ==
    IF f.num >= 0 THEN (2 * f.num + f.den) \div (2 * f.den)
    ELSE -((2 * (-f.num) + f.den) \div (2 * f.den))

\* The centre of output pixel (y, x) in normalized coordinates (lines 105, 296).
PixelCentre(y, x, out_height, out_width) ==
    [x |-> Frac(2 * x + 1, 2 * out_width), y |-> Frac(2 * y + 1, 2 * out_height)]

\* tm.vec4(width, height, 1 / width, 1 / height): x and y are kept, z and w
\* are their reciprocals (lines 103, 293, 294).
SizeOf(field) == [x |-> field.shape[2], y |-> field.shape[1]]

(***************************************************************************)
(* gaussian_taichi (lines 301-312).                                        *)
(***************************************************************************)
\* distance_x = pos.x - x - 0.5 (line 308).  gaussian_blur gives the output
\* field the transposed shape of the source, so pos.x is a row number plus
\* one half and the distance is an integer.
DistanceX(pos_x, x) == (2 * pos_x.num - (2 * x + 1) * pos_x.den) \div (2 * pos_x.den)

\* weight = exp(-(distance_x * distance_x) / (2 * sigma * sigma)) (line 309).
\* With sigma = 0 the quotient is -d*d/0: minus infinity for d # 0, whose exp
\* is 0, and 0/0 = NaN for d = 0.
GaussWeight(distance_x, sig) ==
    IF sig.num = 0
    THEN (IF distance_x = 0 THEN NaN ELSE F0)
    ELSE Fin(Mono(distance_x * distance_x, 1), OnePoly)

\* The loop of lines 307-311, from x to stop - 1.
RECURSIVE GaussianLoop(_, _, _, _, _, _, _)
GaussianLoop(x, stop, acc, pos_x, center_y, Source, sig) ==
    IF x >= stop THEN acc
    ELSE LET weight == GaussWeight(DistanceX(pos_x, x), sig)
         IN  GaussianLoop(x + 1, stop,
                 [weight_sum |-> FAdd(acc.weight_sum, weight),
                  value |-> VAdd(acc.value,
                                 VScale(weight, texelFetch(Source, ivec2(x, center_y))))],
                 pos_x, center_y, Source, sig)

\* int(tm.ceil(4 * sigma)) (line 307).
GaussRadius(sig) == Ceil(Frac(4 * sig.num, sig.den))

GaussCenter(vTexCoord, SourceSize) ==
    LET pos == [x |-> Frac(vTexCoord.y.num * SourceSize.x, vTexCoord.y.den),
                y |-> Frac(vTexCoord.x.num * SourceSize.y, vTexCoord.x.den)]
    IN  [pos |-> pos, center |-> ivec2(Round(pos.x), Floor(pos.y))]

gaussian_sums_noLast(vTexCoord, Source, SourceSize, sig) ==
    LET g == GaussCenter(vTexCoord, SourceSize)
    IN  GaussianLoop(g.center.x - GaussRadius(sig),
                     g.center.x + GaussRadius(sig),
                     [weight_sum |-> F0, value |-> vec3(F0)],
                     g.pos.x, g.center.y, Source, sig)

\* The sums of the loop of gaussian_taichi (lines 303-311).
gaussian_sums(vTexCoord, Source, SourceSize, sig) ==
    LET g == GaussCenter(vTexCoord, SourceSize)
    IN  GaussianLoop(g.center.x - GaussRadius(sig),
                     g.center.x + GaussRadius(sig) + 1,
                     [weight_sum |-> F0, value |-> vec3(F0)],
                     g.pos.x, g.center.y, Source, sig)

gaussian_taichi(vTexCoord, Source, SourceSize, sig) ==
    LET acc == gaussian_sums(vTexCoord, Source, SourceSize, sig)
    IN  VDiv(acc.value, acc.weight_sum)

\* One iteration of gaussian_fragment's parallel loop (lines 295-297).
gaussian_fragment_cell(src, dst, y, x, sig) ==
    gaussian_taichi(PixelCentre(y, x, dst.shape[1], dst.shape[2]), src, SizeOf(src), sig)

(***************************************************************************)
(* Specification SpecGaussian: gaussian_blur (lines 279-286).  Invocation  *)
(* 1 is gaussian_fragment(field_in, field_out, sigma), invocation 2 is     *)
(* gaussian_fragment(field_out, field_in, sigma); call = 3 once the blur   *)
(* has returned field_in.                                                  *)
(***************************************************************************)
ZeroField(h, w) == Field(h, w, [i \in Cells(h, w) |-> vec3(F0)])

InitGaussian ==
    /\ \E h \in 1..MaxHeight, w \in 1..MaxWidth :
          /\ h * w <= MaxCells
          /\ image_in \in Images(h, w)
          /\ field_in = image_in
          /\ field_out = ZeroField(w, h)
    /\ \E n \in 0..MaxSigmaEighths : sigma = Frac(n, 8)
    /\ call = 1
    /\ done = {}
    /\ result = NoField
    /\ vTexCoords = ivec2(0, 0)
    /\ val = vec3(F0)
    /\ reads = {}
    /\ called = FALSE
    /\ BoxIdle
    /\ RestIdle

\* The source and the destination of the invocation under way.
GaussSrc == IF call = 1 THEN field_in ELSE field_out
GaussDst == IF call = 1 THEN field_out ELSE field_in

GaussianCell(y, x) ==
    /\ call \in {1, 2}
    /\ <<y, x>> \in DOMAIN GaussDst.data
    /\ <<y, x>> \notin done
    /\ LET v == gaussian_fragment_cell(GaussSrc, GaussDst, y, x, sigma)
       IN  IF call = 1
           THEN /\ field_out' = [field_out EXCEPT !.data[<<y, x>>] = v]
                /\ UNCHANGED field_in
           ELSE /\ field_in' = [field_in EXCEPT !.data[<<y, x>>] = v]
                /\ UNCHANGED field_out
    /\ done' = done \cup {<<y, x>>}
    /\ UNCHANGED <<image_in, sigma, call, result>>
    /\ UNCHANGED fetchVars
    /\ UNCHANGED <<boxVars, restVars>>

GaussianKernelEnd ==
    /\ call \in {1, 2}
    /\ done = DOMAIN GaussDst.data
    /\ call' = call + 1
    /\ done' = {}
    /\ result' = IF call = 2 THEN field_in ELSE result
    /\ UNCHANGED <<field_in, field_out, image_in, sigma>>
    /\ UNCHANGED fetchVars
    /\ UNCHANGED <<boxVars, restVars>>

NextGaussian ==
    \/ \E y \in 0..(MaxWidth - 1), x \in 0..(MaxWidth - 1) : GaussianCell(y, x)
    \/ GaussianKernelEnd

SpecGaussian == InitGaussian /\ [][NextGaussian]_vars

(***************************************************************************)
(* Claims about the direct Gaussian blur.                                  *)
(***************************************************************************)
RECURSIVE FSumSet(_, _)
FSumSet(f, S) ==
    IF S = {} THEN F0
    ELSE LET e == CHOOSE e \in S : TRUE IN FAdd(f[e], FSumSet(f, S \ {e}))

\* The output pixels of invocation 1 that are written: field_out is complete
\* and no longer written once invocation 1 has ended.
Pass1Cells == IF call = 1 THEN done ELSE DOMAIN field_out.data

\* Output pixel <<y, x>> of invocation 1 blurs row x of image_in around column
\* y: its window is [center - ceil(4 sigma), center + ceil(4 sigma)] with
\* center = round(y + 1/2), and column k of it is at distance y - k.
GaussWindow(y) ==
    (Round(Frac(2 * y + 1, 2)) - GaussRadius(sigma))..(Round(Frac(2 * y + 1, 2)) + GaussRadius(sigma))

GaussInside(y) == GaussWindow(y) \cap (0..(image_in.shape[2] - 1))

\* The sum of the weights of the columns in K, seen from column y.
WeightOver(y, K) == FSumSet([k \in K |-> GaussWeight(y - k, sigma)], K)

\* The weighted sum of channel c of the pixels of row x in the columns K.
ValueOver(y, x, c, K) ==
    FSumSet([k \in K |-> FMul(GaussWeight(y - k, sigma), image_in.data[<<x, k>>][c])], K)

FSame(a, b) == IF a.cls = "fin" THEN FEq(a, b) ELSE a.cls = b.cls

IsConstant(image, colour) == \A i \in DOMAIN image.data : image.data[i] = colour

\* C2 as stated: at every output pixel of the direct Gaussian blur, edge
\* pixels included, the normalized weights applied to stored pixels sum to 1,
\* so a spatially constant image stays constant at the edges (sigma > 0).  On
\* a constant image of value 1 the output is that sum of normalized weights.
C2_EdgesReweighted ==
    \A i \in Pass1Cells, colour \in Palette :
        (sigma.num > 0 /\ IsConstant(image_in, colour)) =>
            VEq(field_out.data[i], colour)

\* C2, amended: the result is the weighted sum of the stored pixels of the
\* window divided by the sum of the weights of every position of the window,
\* the positions outside the image included.  For sigma > 0 the normalized
\* weights applied to stored pixels therefore sum to 1 exactly at the pixels
\* whose whole window lies inside the image, and to less than 1 at the
\* others: there a constant image comes out darker.
C2_WindowNormalized ==
    \A i \in Pass1Cells :
        LET y == i[1]
            x == i[2]
            all == WeightOver(y, GaussWindow(y))
            used == WeightOver(y, GaussInside(y))
            whole == GaussWindow(y) \subseteq 0..(image_in.shape[2] - 1)
        IN  /\ \A c \in 1..3 :
                   FSame(field_out.data[i][c],
                         FDiv(ValueOver(y, x, c, GaussInside(y)), all))
            /\ sigma.num > 0 =>
                   /\ whole => FEq(FDiv(used, all), FInt(1))
                   /\ ~whole => PPositive(FSub(all, used).num)
                   /\ \A colour \in Palette, c \in 1..3 :
                          IsConstant(image_in, colour) /\ ~FIsZero(colour[c]) =>
                              (FEq(field_out.data[i][c], colour[c]) <=> whole)

\* A constant nonzero image has been blurred with sigma > 0: an output pixel
\* whose window is inside the image kept the colour, and one whose window
\* passes the edge did not.
C2_Witness ==
    /\ call >= 2
    /\ sigma.num > 0
    /\ IsConstant(image_in, VInt(1, 1, 1))
    /\ \E i \in DOMAIN field_out.data :
          /\ GaussWindow(i[1]) \subseteq 0..(image_in.shape[2] - 1)
          /\ VEq(field_out.data[i], VInt(1, 1, 1))
    /\ \E i \in DOMAIN field_out.data :
          /\ ~(GaussWindow(i[1]) \subseteq 0..(image_in.shape[2] - 1))
          /\ ~VEq(field_out.data[i], VInt(1, 1, 1))

\* C4: a blur of zero strength returns its input unchanged and produces no
\* NaN: gaussian_blur with sigma = 0 returns the image it was given.
C4_ZeroSigmaIdentity ==
    (call = 3 /\ sigma.num = 0) =>
        /\ result.shape = image_in.shape
        /\ \A i \in DOMAIN image_in.data : VEq(result.data[i], image_in.data[i])

(***************************************************************************)
(* taichi_box_blur (lines 256-276).  The outer loop over the rows y is     *)
(* parallel: one worker per row, each running the four inner loops in      *)
(* order, one iteration of an inner loop per step.                         *)
(***************************************************************************)
BoxWidth_twiceRadius(r) == 2 * r

\* width = 2 * radius + 1 (line 260).
BoxWidth(r) == 2 * r + 1

\* The iterations of the inner loops of one row, in order, as <<loop, x>>:
\* range(radius), range(radius, width), range(width, in_width) and
\* range(in_width, in_width + radius) (lines 264, 266, 269, 273).
BoxSteps(r, in_width) ==
    LET n1 == r
        n2 == IF BoxWidth(r) > r THEN BoxWidth(r) - r ELSE 0
        n3 == IF in_width > BoxWidth(r) THEN in_width - BoxWidth(r) ELSE 0
        n4 == r
    IN  [k \in 1..(n1 + n2 + n3 + n4) |->
            IF k <= n1 THEN <<1, k - 1>>
            ELSE IF k <= n1 + n2 THEN <<2, r + (k - n1 - 1)>>
            ELSE IF k <= n1 + n2 + n3 THEN <<3, BoxWidth(r) + (k - n1 - n2 - 1)>>
            ELSE <<4, in_width + (k - n1 - n2 - n3 - 1)>>]

\* The index of field_in[y, x] an iteration adds to running_sum, if any
\* (lines 265, 267, 270), and the one it subtracts (lines 271, 274).
BoxAdds(st, y) == IF st[1] \in {1, 2, 3} THEN {<<y, st[2]>>} ELSE {}
BoxSubtracts(st, y, r) == IF st[1] \in {3, 4} THEN {<<y, st[2] - BoxWidth(r)>>} ELSE {}

\* The index field_out[x - radius, y] an iteration writes (lines 268, 272, 275).
BoxWrites(st, y, r) == IF st[1] \in {2, 3, 4} THEN {<<st[2] - r, y>>} ELSE {}

\* The source and the destination of the invocation under way: box_blur
\* alternates taichi_box_blur(field_in, field_out) and (field_out, field_in).
BoxSrc == IF call % 2 = 1 THEN field_in ELSE field_out
BoxDst == IF call % 2 = 1 THEN field_out ELSE field_in

\* A place in memory: a cell of the source, a cell of the destination, or
\* memory that belongs to neither.
Loc(buf, i) == <<buf, i[1], i[2]>>
Elsewhere == <<"none", 0, 0>>
AllLocs ==
    {Loc("src", i) : i \in DOMAIN BoxSrc.data}
    \cup {Loc("dst", i) : i \in DOMAIN BoxDst.data}
    \cup {Elsewhere}

\* What memory outside the two fields may hold.
Garbage == {vec3(F0), VInt(7, 7, 7)}

\* An index outside a field's shape is undefined behaviour in a Taichi kernel
\* (no bounds check outside debug mode): the access lands at any place, which
\* is an outcome of the step.  An outcome is the place the out-of-range
\* accesses of the step land and what that place holds if it is in no field.
BoxOutcomes(st, y, r) ==
    IF /\ BoxAdds(st, y) \cup BoxSubtracts(st, y, r) \subseteq DOMAIN BoxSrc.data
       /\ BoxWrites(st, y, r) \subseteq DOMAIN BoxDst.data
    THEN {[loc |-> Elsewhere, holds |-> vec3(F0)]}
    ELSE {[loc |-> l, holds |-> vec3(F0)] : l \in AllLocs \ {Elsewhere}}
         \cup {[loc |-> Elsewhere, holds |-> g] : g \in Garbage}

\* The value a read of field_in[i] yields under outcome o.
BoxLoad(i, o) ==
    IF i \in DOMAIN BoxSrc.data THEN BoxSrc.data[i]
    ELSE IF o.loc[1] = "src" THEN BoxSrc.data[<<o.loc[2], o.loc[3]>>]
    ELSE IF o.loc[1] = "dst" THEN BoxDst.data[<<o.loc[2], o.loc[3]>>]
    ELSE o.holds

RECURSIVE VSumSet(_, _)
VSumSet(f, S) ==
    IF S = {} THEN vec3(F0)
    ELSE LET e == CHOOSE e \in S : TRUE IN VAdd(f[e], VSumSet(f, S \ {e}))

\* running_sum after the iteration (lines 265, 267, 270-271, 274).
BoxRunningSum(running_sum, st, y, r, o) ==
    VSub(VAdd(running_sum,
              VSumSet([i \in BoxAdds(st, y) |-> BoxLoad(i, o)], BoxAdds(st, y))),
         VSumSet([i \in BoxSubtracts(st, y, r) |-> BoxLoad(i, o)], BoxSubtracts(st, y, r)))

\* The cell of a field that a write to index i of the destination changes
\* under outcome o, if it changes one of that field.
BoxStored(buf, i, o) ==
    IF i \in DOMAIN BoxDst.data THEN (IF buf = "dst" THEN {i} ELSE {})
    ELSE IF o.loc[1] = buf THEN {<<o.loc[2], o.loc[3]>>}
    ELSE {}

\* The data of field buf after the iteration has written v.
BoxStore(buf, data, st, y, r, o, v) ==
    LET hit == UNION {BoxStored(buf, i, o) : i \in BoxWrites(st, y, r)}
    IN  [c \in DOMAIN data |-> IF c \in hit THEN v ELSE data[c]]

\* The accesses of the iteration, for the log.
BoxAccesses(st, y, r, o, at) ==
    {[w |-> y, step |-> at, op |-> "read", idx |-> i,
      loc |-> IF i \in DOMAIN BoxSrc.data THEN Loc("src", i) ELSE o.loc] :
          i \in BoxAdds(st, y) \cup BoxSubtracts(st, y, r)}
    \cup
    {[w |-> y, step |-> at, op |-> "write", idx |-> i,
      loc |-> IF i \in DOMAIN BoxDst.data THEN Loc("dst", i) ELSE o.loc] :
          i \in BoxWrites(st, y, r)}

BoxWorkers(src) ==
    [y \in 0..(src.shape[1] - 1) |-> [pc |-> 1, running_sum |-> vec3(F0)]]

(***************************************************************************)
(* Specification SpecBoxBlur: box_blur (lines 241-253), eight invocations  *)
(* of taichi_box_blur; call = 9 once it has returned field_in.  After an   *)
(* out-of-range access (ub) the run is followed no further.                *)
(***************************************************************************)
InitBoxBlur ==
    /\ \E h \in 1..MaxHeight, w \in 1..MaxWidth :
          /\ h * w <= MaxCells
          /\ image_in \in Images(h, w)
          /\ field_in = image_in
          /\ field_out = ZeroField(w, h)
    /\ radius \in 0..MaxRadius
    /\ call = 1
    /\ workers = BoxWorkers(field_in)
    /\ log = {}
    /\ ub = FALSE
    /\ done = {}
    /\ result = NoField
    /\ sigma = Frac(0, 1)
    /\ vTexCoords = ivec2(0, 0)
    /\ val = vec3(F0)
    /\ reads = {}
    /\ called = FALSE
    /\ RestIdle

BoxIteration(y) ==
    /\ call \in 1..8
    /\ ~ub
    /\ y \in DOMAIN workers
    /\ workers[y].pc <= Len(BoxSteps(radius, BoxSrc.shape[2]))
    /\ LET steps == BoxSteps(radius, BoxSrc.shape[2])
           at == workers[y].pc
           st == steps[at]
       IN  \E o \in BoxOutcomes(st, y, radius) :
               LET sum == BoxRunningSum(workers[y].running_sum, st, y, radius, o)
                   v == VDiv(sum, FInt(BoxWidth(radius)))
                   src1 == [BoxSrc EXCEPT !.data = BoxStore("src", @, st, y, radius, o, v)]
                   dst1 == [BoxDst EXCEPT !.data = BoxStore("dst", @, st, y, radius, o, v)]
               IN  /\ workers' = [workers EXCEPT ![y] = [pc |-> at + 1, running_sum |-> sum]]
                   /\ field_in' = IF call % 2 = 1 THEN src1 ELSE dst1
                   /\ field_out' = IF call % 2 = 1 THEN dst1 ELSE src1
                   /\ log' = log \cup BoxAccesses(st, y, radius, o, at)
                   /\ ub' = (o \notin {[loc |-> Elsewhere, holds |-> vec3(F0)]}
                             \/ ~(BoxAdds(st, y) \cup BoxSubtracts(st, y, radius)
                                     \subseteq DOMAIN BoxSrc.data)
                             \/ ~(BoxWrites(st, y, radius) \subseteq DOMAIN BoxDst.data))
                   /\ done' = IF at = Len(steps) THEN done \cup {y} ELSE done
    /\ UNCHANGED <<image_in, sigma, call, result, radius>>
    /\ UNCHANGED fetchVars
    /\ UNCHANGED restVars

BoxKernelEnd ==
    /\ call \in 1..8
    /\ ~ub
    /\ \A y \in DOMAIN workers : workers[y].pc > Len(BoxSteps(radius, BoxSrc.shape[2]))
    /\ call' = call + 1
    /\ workers' = IF call = 8 THEN <<>> ELSE BoxWorkers(BoxDst)
    /\ log' = {}
    /\ done' = {}
    /\ result' = IF call = 8 THEN field_in ELSE result
    /\ UNCHANGED <<field_in, field_out, image_in, sigma, radius, ub>>
    /\ UNCHANGED fetchVars
    /\ UNCHANGED restVars

NextBoxBlur ==
    \/ \E y \in 0..(MaxHeight + MaxWidth) : BoxIteration(y)
    \/ BoxKernelEnd

SpecBoxBlur == InitBoxBlur /\ [][NextBoxBlur]_vars

(***************************************************************************)
(* Claims about the box blur.                                              *)
(***************************************************************************)
\* The box filter of width 2r+1 over a zero-padded row: the mean, over the
\* 2r+1 columns around j, of the stored pixel where the column is in the
\* image and of zero where it is not.
ZeroPadBox(src, y, j, r) ==
    LET K == {k \in (j - r)..(j + r) : k \in 0..(src.shape[2] - 1)}
    IN  VDiv(VSumSet([k \in K |-> src.data[<<y, k>>]], K), FInt(2 * r + 1))

\* Row y of the input is a unit impulse at column 0 and zero elsewhere.
ImpulseRow(y) ==
    /\ VEq(image_in.data[<<y, 0>>], VInt(1, 1, 1))
    /\ \A k \in 1..(image_in.shape[2] - 1) : VEq(image_in.data[<<y, k>>], vec3(F0))

\* The first horizontal pass has written the whole of row y.
FirstPassDone(y) ==
    /\ y \in 0..(image_in.shape[1] - 1)
    /\ ~ub
    /\ \/ call = 1 /\ y \in done
       \/ call = 2

\* The case of claim C8: one pass, radius >= 1, a scanline of width >= 2r+1
\* holding a unit impulse at column 0.
ImpulseCase(y) ==
    /\ radius >= 1
    /\ image_in.shape[2] >= 2 * radius + 1
    /\ FirstPassDone(y)
    /\ ImpulseRow(y)

\* C8 as stated: over the output columns 0..r of the impulse scanline the pass
\* produces a profile that is not the profile of the zero-padded box filter of
\* width 2r+1, that is, it differs from it at one of these columns.
C8_NotZeroPadded ==
    \A y \in 0..(MaxHeight - 1) :
        ImpulseCase(y) =>
            \E j \in 0..radius :
                ~VEq(field_out.data[<<j, y>>], ZeroPadBox(image_in, y, j, radius))

\* C8, amended: over the output columns 0..r of the impulse scanline the pass
\* produces the flat profile 1/(2r+1), and at every column its output is the
\* output of the zero-padded box filter of width 2r+1.
C8_ImpulseProfileFlat ==
    \A y \in 0..(MaxHeight - 1) :
        ImpulseCase(y) =>
            /\ \A j \in 0..radius :
                  VEq(field_out.data[<<j, y>>],
                      vec3(FDiv(FInt(1), FInt(2 * radius + 1))))
            /\ \A j \in 0..(image_in.shape[2] - 1) :
                  VEq(field_out.data[<<j, y>>], ZeroPadBox(image_in, y, j, radius))

\* A pass over an impulse scanline has finished with 1/(2r+1) at column 0.
C8_Witness ==
    /\ call = 2
    /\ ImpulseCase(0)
    /\ VEq(field_out.data[<<0, 0>>], vec3(FDiv(FInt(1), FInt(2 * radius + 1))))
    /\ ~VEq(field_out.data[<<0, 0>>], vec3(F0))

\* C10 as stated: for every radius r >= 0 and every width in_width >= 1 a
\* pass reads field_in only at columns in [0, in_width), writes no output
\* index outside 0..in_width-1, writes each of these indices of a finished row
\* exactly once, and box_blur returns an image of the shape of its input with
\* every pixel defined.
C10_BoxIndexSafe ==
    /\ ~ub
    /\ \A a \in log :
          /\ a.op = "read" => a.idx[2] \in 0..(BoxSrc.shape[2] - 1)
          /\ a.op = "write" => a.idx[1] \in 0..(BoxSrc.shape[2] - 1)
    /\ \A y \in done :
          call \in 1..8 =>
              \A j \in 0..(BoxSrc.shape[2] - 1) :
                  Cardinality({a \in log : a.w = y /\ a.op = "write"
                                            /\ a.idx = <<j, y>>}) = 1
    /\ call = 9 =>
          /\ result.shape = image_in.shape
          /\ \A i \in DOMAIN result.data :
                \A c \in 1..3 : result.data[i][c].cls = "fin"

\* C7 as stated, for taichi_box_blur: no two workers access the same place
\* unless both read it, each output cell is written exactly once, and the
\* output buffer of a finished invocation is a function of its input alone.
C7_KernelsRaceFree ==
    /\ \A a \in log : \A b \in log :
          (a.w # b.w /\ a.loc = b.loc /\ a.loc # Elsewhere) =>
              (a.op = "read" /\ b.op = "read")
    /\ (call \in 1..8 /\ done = DOMAIN workers) =>
          \A i \in DOMAIN BoxDst.data :
              /\ Cardinality({a \in log : a.op = "write" /\ a.loc = Loc("dst", i)}) = 1
              /\ VEq(BoxDst.data[i], ZeroPadBox(BoxSrc, i[2], i[1], radius))

\* The box-blur half of claim C4: box_blur with radius 0 returns an image
\* equal to its input at every pixel.
C4_BoxZeroRadiusIdentity ==
    (call = 9 /\ radius = 0 /\ result # NoField) =>
        /\ result.shape = image_in.shape
        /\ \A i \in DOMAIN image_in.data : VEq(result.data[i], image_in.data[i])

\* box_blur with radius 0 has returned.
C4_BoxWitness == call = 9 /\ radius = 0 /\ result # NoField

(***************************************************************************)
(* filter_sim (lines 110-128) and taichi_filter_fragment (lines 99-107).   *)
(*                                                                         *)
(* Horizontal positions are counted in units of 1/(2*out_width*in_width):  *)
(* the position t of output column x, (x + 0.5)/out_width, is              *)
(* (2x+1)*in_width units, the left edge pix_x/in_width of source column    *)
(* pix_x is pix_x*2*out_width units, and L[c] is a whole number of units.  *)
(* A channel of the filter's output is the real number                     *)
(*     lin + (1/(2*pi)) * SUM over a of sines[a] * sin(pi*a/L[c])          *)
(* kept as the pair lin, sines with lin and every sines[a] exact.  Since   *)
(* pi is transcendental and the sines are algebraic, such a number equals  *)
(* a rational only if lin does.                                            *)
(***************************************************************************)
MaxSamples == 3
MaxL == 3

Min2(a, b) == IF a <= b THEN a ELSE b
Max2(a, b) == IF a >= b THEN a ELSE b

\* tm.clamp(x, lo, hi)
clamp(x, lo, hi) == Min2(Max2(x, lo), hi)

NoSines == [a \in {} |-> F0]

\* k * sin(pi*a/ell) for -ell <= a <= ell: sin(0) = sin(pi) = sin(-pi) = 0
\* and sin(-z) = -sin(z).
Sine(a, ell, k) ==
    IF a = 0 \/ a = ell \/ a = -ell \/ FIsZero(k) THEN NoSines
    ELSE IF a > 0 THEN [e \in {a} |-> k]
    ELSE [e \in {-a} |-> FNeg(k)]

SinesCoef(p, a) == IF a \in DOMAIN p THEN p[a] ELSE F0

SinesAdd(p, r) ==
    LET sum(a) == FAdd(SinesCoef(p, a), SinesCoef(r, a))
    IN  [a \in {e \in DOMAIN p \cup DOMAIN r : ~FIsZero(sum(e))} |-> sum(a)]

Trig(lin, sines) == [lin |-> lin, sines |-> sines]
TrigZero == Trig(F0, NoSines)
TrigAdd(a, b) == Trig(FAdd(a.lin, b.lin), SinesAdd(a.sines, b.sines))

RECURSIVE TrigSum(_, _)
TrigSum(f, S) ==
    IF S = {} THEN TrigZero
    ELSE LET e == CHOOSE e \in S : TRUE IN TrigAdd(f[e], TrigSum(f, S \ {e}))

filter_range_noLast(t, max_L, out_width) ==
    ((t - max_L) \div (2 * out_width))..(((t + max_L) \div (2 * out_width)) - 1)

\* The values of pix_x the loop runs over (lines 118-119):
\* range(floor(SourceSize.x * (t - max_L)), floor(SourceSize.x * (t + max_L)) + 1).
filter_range(t, max_L, out_width) ==
    ((t - max_L) \div (2 * out_width))..((t + max_L) \div (2 * out_width))

\* What one iteration of the loop adds to channel c of filtered (lines 120-127).
filter_term(pix_x, pix_y, t, c, Source, out_width) ==
    LET s == texelFetch(Source, ivec2(pix_x, pix_y))[c]
        t0 == clamp(pix_x * 2 * out_width, t - L[c], t + L[c])
        t1 == clamp(pix_x * 2 * out_width + 2 * out_width, t - L[c], t + L[c])
    IN  Trig(FMul(s, FDiv(FInt(t1 - t0), FInt(2 * L[c]))),
             SinesAdd(Sine(t - t0, L[c], s), Sine(t - t1, L[c], FNeg(s))))

\* filter_sim at the centre of output cell (y, x) of a field with out_height
\* rows and out_width columns.
filter_sim(y, x, Source, out_height, out_width) ==
    LET max_L == Max2(Max2(L[1], L[2]), L[3])
        pix_y == Floor(Frac((2 * y + 1) * Source.shape[1], 2 * out_height))
        t == (2 * x + 1) * Source.shape[2]
        R == filter_range(t, max_L, out_width)
    IN  [c \in 1..3 |->
            TrigSum([pix_x \in R |-> filter_term(pix_x, pix_y, t, c, Source, out_width)], R)]

(***************************************************************************)
(* Specification SpecFilter: filter_fragment (lines 89-96), one invocation *)
(* of taichi_filter_fragment on an image of any shape with out_width from  *)
(* 1 to MaxSamples and each L[c] from 1 to MaxL units; call = 2 once       *)
(* filter_fragment has returned field_out.                                 *)
(***************************************************************************)
HalfWidths == {<<a, a, a>> : a \in 1..MaxL} \cup {<<MaxL, 1, 2>>}

InitFilter ==
    /\ \E h \in 1..MaxHeight, w \in 1..MaxWidth, s \in 1..MaxSamples :
          /\ h * s <= MaxCells
          /\ image_in \in Images(h, w)
          /\ field_in = image_in
          /\ field_out = Field(h, s, [i \in Cells(h, s) |-> [c \in 1..3 |-> TrigZero]])
    /\ L \in HalfWidths
    /\ call = 1
    /\ done = {}
    /\ result = NoField
    /\ sigma = Frac(0, 1)
    /\ vTexCoords = ivec2(0, 0)
    /\ val = vec3(F0)
    /\ reads = {}
    /\ called = FALSE
    /\ BoxIdle
    /\ BLUR_SIGMA = 0
    /\ SAMPLES = 0
    /\ pc = 0
    /\ env = <<>>
    /\ trace = <<>>
    /\ img = <<>>
    /\ out = <<>>

FilterCell(y, x) ==
    /\ call = 1
    /\ <<y, x>> \in DOMAIN field_out.data
    /\ <<y, x>> \notin done
    /\ field_out' = [field_out EXCEPT !.data[<<y, x>>] =
                        filter_sim(y, x, field_in, field_out.shape[1], field_out.shape[2])]
    /\ done' = done \cup {<<y, x>>}
    /\ UNCHANGED <<field_in, image_in, sigma, call, result>>
    /\ UNCHANGED fetchVars
    /\ UNCHANGED <<boxVars, restVars>>

FilterKernelEnd ==
    /\ call = 1
    /\ done = DOMAIN field_out.data
    /\ call' = 2
    /\ result' = field_out
    /\ UNCHANGED <<field_in, field_out, image_in, sigma, done>>
    /\ UNCHANGED fetchVars
    /\ UNCHANGED <<boxVars, restVars>>

NextFilter ==
    \/ \E y \in 0..(MaxHeight - 1), x \in 0..(MaxSamples - 1) : FilterCell(y, x)
    \/ FilterKernelEnd

SpecFilter == InitFilter /\ [][NextFilter]_vars

(***************************************************************************)
(* Claims about the band-limit filter.                                     *)
(***************************************************************************)
\* The position of output column x, and the right end of the image, in units.
FilterT(x) == (2 * x + 1) * field_in.shape[2]
FilterEnd == 2 * field_out.shape[2] * field_in.shape[2]

\* The window [t - L[c], t + L[c]] of output column x lies within the image.
WindowInside(x, c) == FilterT(x) - L[c] >= 0 /\ FilterT(x) + L[c] <= FilterEnd

\* The length of the part of the window that lies within the image.
Covered(x, c) == Min2(FilterT(x) + L[c], FilterEnd) - Max2(FilterT(x) - L[c], 0)

\* An output channel is exactly the number k.
TrigIs(v, k) == FEq(v.lin, k) /\ v.sines = NoSines

\* C3 as stated: the filter applied to a spatially constant image returns
\* that constant on every channel at every output cell.
C3_ConstantPreserved ==
    \A i \in done, colour \in Palette, c \in 1..3 :
        (call = 1 /\ IsConstant(image_in, colour)) =>
            TrigIs(field_out.data[i][c], colour[c])

\* C3, amended: the filter applied to a spatially constant image returns that
\* constant on a channel at every output cell whose window [t - L, t + L] for
\* the channel lies within the image; at any other cell the part of the
\* window outside the image reads texelFetch's zero border, the part of the
\* result that is linear in the footprints is the constant times the covered
\* fraction of the window, and a nonzero constant is not returned.
C3_ConstantInsideImage ==
    \A i \in done, colour \in Palette, c \in 1..3 :
        (call = 1 /\ IsConstant(image_in, colour)) =>
            /\ FEq(field_out.data[i][c].lin,
                   FMul(colour[c], FDiv(FInt(Covered(i[2], c)), FInt(2 * L[c]))))
            /\ WindowInside(i[2], c) => TrigIs(field_out.data[i][c], colour[c])
            /\ (~WindowInside(i[2], c) /\ ~FIsZero(colour[c])) =>
                  ~FEq(field_out.data[i][c].lin, colour[c])

\* A constant nonzero image has been filtered at a cell whose window lies
\* within the image and at a cell whose window does not.
C3_Witness ==
    /\ call = 1
    /\ IsConstant(image_in, VInt(1, 1, 1))
    /\ \E i \in done : /\ WindowInside(i[2], 1)
                       /\ TrigIs(field_out.data[i][1], FInt(1))
    /\ \E i \in done : /\ ~WindowInside(i[2], 1)
                       /\ ~TrigIs(field_out.data[i][1], FInt(1))

(***************************************************************************)
(* linear_to_srgb (lines 55-59).  A value of img is a fraction num/den     *)
(* with den > 0; the bytes of the result are integers.                     *)
(***************************************************************************)
MaxPixels == 2

\* img <= 0.0031308, the condition of np.where (line 57).
SrgbIsLinear(v) == v.num * 10000000 <= 31308 * v.den

\* np.around: to the nearest integer, a half to the even one.
Around(f) ==
    LET fl == Floor(f)
        twice == 2 * (f.num - fl * f.den)
    IN  IF twice < f.den THEN fl
        ELSE IF twice > f.den THEN fl + 1
        ELSE IF fl % 2 = 0 THEN fl ELSE fl + 1

\* np.clip(img, 0.0, 1.0)
Clip01(v) ==
    IF v.num <= 0 THEN Frac(0, 1)
    ELSE IF v.num >= v.den THEN Frac(1, 1)
    ELSE v

\* np.around(255 * (1.055 * c^(1/2.4) - 0.055)) for the clipped value c, at
\* the values of c the model uses: 1.055 * 1 - 0.055 is 1, and the formula
\* gives 25.46 at 1/100, 136.96 at 1/4 and 224.61 at 3/4.
AroundPower(c) ==
    CASE c = Frac(1, 1) -> 255
      [] c = Frac(1, 100) -> 25
      [] c = Frac(1, 4) -> 137
      [] c = Frac(3, 4) -> 225

\* np.around(out * 255) for one value of img (lines 57-58): img * 12.92 where
\* img <= 0.0031308, the power law of the clipped value elsewhere.
SrgbScaled(v) ==
    IF SrgbIsLinear(v)
    THEN Around(Frac(v.num * 1292 * 255, v.den * 100))
    ELSE AroundPower(Clip01(v))

\* .astype(np.uint8) of the float n (line 58).  The conversion of a float
\* outside 0..255 to an unsigned byte is undefined in C: builds wrap it
\* modulo 256 or saturate it.
AsUint8(n) ==
    IF n \in 0..255 THEN {n}
    ELSE {n % 256, IF n < 0 THEN 0 ELSE 255}

\* The arrays linear_to_srgb can return for img.
RECURSIVE linear_to_srgb(_)
linear_to_srgb(image) ==
    IF image = <<>> THEN {<<>>}
    ELSE {<<b>> \o rest : b \in AsUint8(SrgbScaled(Head(image))),
                          rest \in linear_to_srgb(Tail(image))}

\* The values of img the model runs linear_to_srgb on.
SrgbInputs ==
    {Frac(-1, 2), Frac(-1, 100), Frac(-1, 10000), Frac(0, 1), Frac(3, 1000),
     Frac(1, 100), Frac(1, 4), Frac(3, 4), Frac(1, 1), Frac(3, 2)}

(***************************************************************************)
(* Specification SpecSrgb: linear_to_srgb called once on an array of 1 to  *)
(* MaxPixels values.                                                       *)
(***************************************************************************)
InitSrgb ==
    /\ \E n \in 1..MaxPixels : img \in [1..n -> SrgbInputs]
    /\ out = <<>>
    /\ field_in = NoField
    /\ field_out = NoField
    /\ image_in = NoField
    /\ sigma = Frac(0, 1)
    /\ call = 0
    /\ done = {}
    /\ result = NoField
    /\ vTexCoords = ivec2(0, 0)
    /\ val = vec3(F0)
    /\ reads = {}
    /\ called = FALSE
    /\ BoxIdle
    /\ L = <<0, 0, 0>>
    /\ BLUR_SIGMA = 0
    /\ SAMPLES = 0
    /\ pc = 0
    /\ env = <<>>
    /\ trace = <<>>

LinearToSrgb ==
    /\ out = <<>>
    /\ out' \in linear_to_srgb(img)
    /\ UNCHANGED <<field_in, field_out, sigma>>
    /\ UNCHANGED <<fetchVars, blurVars, boxVars>>
    /\ UNCHANGED <<L, BLUR_SIGMA, SAMPLES, pc, env, trace, img>>

NextSrgb == LinearToSrgb

SpecSrgb == InitSrgb /\ [][NextSrgb]_vars

\* C9 as stated: for every input value, v < 0 and v > 1 included, the byte
\* is the encoded value clamped to [0, 1], scaled by 255 and rounded: every
\* v <= 0 encodes to 0 and every v >= 1 encodes to 255.
C9_ClampBeforeCast ==
    out # <<>> =>
        \A k \in DOMAIN img :
            /\ out[k] \in 0..255
            /\ img[k].num <= 0 => out[k] = 0
            /\ img[k].num >= img[k].den => out[k] = 255
            /\ out[k] = clamp(SrgbScaled(img[k]), 0, 255)

(***************************************************************************)
(* main (lines 336-432).  The value of a local variable is the term that   *)
(* says how it was computed: a leaf (a file name, a module constant) or    *)
(* an operation applied to terms.  USE_YIQ is False (line 315), so main    *)
(* runs the else branches of lines 349-354 and 379-382.  No statement of   *)
(* main, and no function it calls, tests BLUR_SIGMA, SAMPLES or L.         *)
(***************************************************************************)
MaxBlurSigma == 2

Leaf(name) == [op |-> name, of |-> <<>>]
App(fn, args) == [op |-> fn, of |-> args]

\* Expressions of main: a local variable, a constant, the value the call
\* just before returned, an operation on expressions.
Var(name) == [kind |-> "var", name |-> name, args |-> <<>>]
Const(name) == [kind |-> "const", name |-> name, args |-> <<>>]
Ret == [kind |-> "ret", name |-> "", args |-> <<>>]
Expr(fn, args) == [kind |-> "app", name |-> fn, args |-> args]

RECURSIVE Eval(_, _, _)
Eval(e, en, last) ==
    CASE e.kind = "var" -> en[e.name]
      [] e.kind = "const" -> Leaf(e.name)
      [] e.kind = "ret" -> last
      [] e.kind = "app" -> App(e.name, [i \in DOMAIN e.args |-> Eval(e.args[i], en, last)])

\* One step of main: the line, the variable assigned ("" if none), the
\* function or operator applied ("=" for a plain assignment), its arguments,
\* which of them is the image consumed (0 if none), the stage of the
\* pipeline the step is ("" if none) and the kernels the function launches.
Step(line, var, fn, args, image, stage, kernels) ==
    [line |-> line, var |-> var, fn |-> fn, args |-> args, image |-> image,
     stage |-> stage, kernels |-> kernels]

MainBody ==
    << Step(345, "img_original", "imread", <<Const("args.input")>>, 0, "decode", <<>>),
       Step(354, "img_crt_gamma", "astype(float32)/255", <<Var("img_original")>>, 1,
            "to_working", <<>>),
       Step(358, "img_filtered", "filter_fragment",
            <<Var("img_crt_gamma"), Const("SAMPLES")>>, 1,
            "band_limit", <<"taichi_filter_fragment">>),
       Step(359, "", "linear_to_srgb", <<Var("img_filtered")>>, 1, "to_encoded", <<>>),
       Step(359, "", "imwrite", <<Const("filtered.png"), Ret>>, 2, "encode", <<>>),
       Step(382, "img_filtered_linear", "gamma_to_linear",
            <<Var("img_filtered"), Const("GAMMA")>>, 1, "to_linear", <<>>),
       Step(386, "img_spot", "spot_fragment",
            <<Var("img_filtered_linear"), Const("OUTPUT_RESOLUTION")>>, 1,
            "spot", <<"taichi_spot_fragment">>),
       Step(398, "img_masked", "=", <<Var("img_spot")>>, 0, "", <<>>),
       Step(419, "sigma", "*", <<Const("BLUR_SIGMA"), Const("OUTPUT_RESOLUTION[0]")>>, 0,
            "", <<>>),
       Step(423, "blurred", "gaussian_blur", <<Var("img_masked"), Var("sigma")>>, 1,
            "blur", <<"gaussian_fragment", "gaussian_fragment">>),
       Step(425, "img_diffused", "+",
            <<Var("img_masked"),
              Expr("*", <<Expr("-", <<Var("blurred"), Var("img_masked")>>),
                          Const("BLUR_AMOUNT")>>)>>, 0,
            "composite", <<>>),
       Step(430, "img_final_srgb", "linear_to_srgb", <<Var("img_diffused")>>, 1,
            "to_encoded", <<>>),
       Step(432, "", "imwrite", <<Const("args.output"), Var("img_final_srgb")>>, 2,
            "encode", <<>>) >>

MainStep_blurOfFiltered(k) ==
    IF MainBody[k].fn = "gaussian_blur"
    THEN [MainBody[k] EXCEPT !.args = <<Var("img_filtered_linear"), Var("sigma")>>]
    ELSE MainBody[k]

\* The k-th step of main.
MainStep(k) == MainBody[k]

\* The value the last call returned.
LastRet == IF trace = <<>> THEN Leaf("None") ELSE trace[Len(trace)].ret

(***************************************************************************)
(* Specification SpecMain: one run of main, with BLUR_SIGMA any multiple   *)
(* of 1/25 from -1/25 to MaxBlurSigma/25, SAMPLES from 1 to MaxSamples and *)
(* each L[c] positive.                                                     *)
(***************************************************************************)
InitMain ==
    /\ \E n \in (-1)..MaxBlurSigma : BLUR_SIGMA = Frac(n, 25)
    /\ SAMPLES \in 1..MaxSamples
    /\ L \in HalfWidths
    /\ pc = 0
    /\ env = <<>>
    /\ trace = <<>>
    /\ img = <<>>
    /\ out = <<>>
    /\ field_in = NoField
    /\ field_out = NoField
    /\ image_in = NoField
    /\ sigma = Frac(0, 1)
    /\ call = 0
    /\ done = {}
    /\ result = NoField
    /\ vTexCoords = ivec2(0, 0)
    /\ val = vec3(F0)
    /\ reads = {}
    /\ called = FALSE
    /\ BoxIdle

MainNext ==
    /\ pc < Len(MainBody)
    /\ LET st == MainStep(pc + 1)
           args == [i \in DOMAIN st.args |-> Eval(st.args[i], env, LastRet)]
           ret == IF st.fn = "=" THEN args[1] ELSE App(st.fn, args)
       IN  /\ env' = IF st.var = "" THEN env
                     ELSE [n \in DOMAIN env \cup {st.var} |->
                              IF n = st.var THEN ret ELSE env[n]]
           /\ trace' = Append(trace,
                              [line |-> st.line, fn |-> st.fn, args |-> args, ret |-> ret,
                               image |-> IF st.image = 0 THEN Leaf("None")
                                         ELSE args[st.image],
                               stage |-> st.stage, kernels |-> st.kernels])
    /\ pc' = pc + 1
    /\ UNCHANGED <<field_in, field_out, sigma>>
    /\ UNCHANGED <<fetchVars, blurVars, boxVars>>
    /\ UNCHANGED <<L, BLUR_SIGMA, SAMPLES, img, out>>

NextMain == MainNext

SpecMain == InitMain /\ [][NextMain]_vars

(***************************************************************************)
(* Claims about main.                                                      *)
(***************************************************************************)
\* The steps of the run so far that are stages of the pipeline.
IsStage(ev) == ev.stage # ""
Stages == SelectSeq(trace, IsStage)
StageNames == [i \in DOMAIN Stages |-> Stages[i].stage]

IsPrefix(a, b) == Len(a) <= Len(b) /\ \A i \in DOMAIN a : a[i] = b[i]

\* The kernels launched so far.
LaunchedKernels == {i \in DOMAIN trace : trace[i].kernels # <<>>}

\* C5 as stated, for the parameters of main: in every run where BLUR_SIGMA or
\* SAMPLES is non-positive, no kernel is ever started and the run does not
\* go on to its end (it aborts with an InvalidParameters error).
C5_InvalidParametersAbort ==
    (BLUR_SIGMA.num <= 0 \/ SAMPLES <= 0) =>
        /\ LaunchedKernels = {}
        /\ pc < Len(MainBody)

====
